---- MODULE Spec2Model ----
(***************************************************************************)
(* DevSentinel / CodeRoaster VS Code extension.                            *)
(*                                                                         *)
(* State machine of the current entry point (the full-content extension):  *)
(* the diagnostic collection ("ledger"), the four analysis commands with   *)
(* their suspension at the network call, the connectivity probe, the       *)
(* quick-fix code action and the hover provider.                           *)
(*                                                                         *)
(* Strings are sequences of tokens; a token is an indivisible piece of     *)
(* text.  LF and CR are the line-break tokens.                             *)
(***************************************************************************)
EXTENDS Integers, Sequences, FiniteSets, TLC

\* ------------------------------------------------------------------ bounds
MaxRequests == 2      \* analysis requests issued in one behaviour
MaxComments == 1      \* comments / functions in one backend response
MaxEdits    == 2      \* quick fixes applied in one behaviour
MaxFixRequests == 1   \* analysis requests issued in one behaviour of FixSpec
                      \* and of ComplexitySpec
MaxProbes   == 1      \* connectivity probes started after activation
MaxFunctions == 2     \* functions in one response of ComplexitySpec
MaxIngestComments == 2  \* comments in one response of IngestSpec
MaxForeign == 2       \* diagnostics of other tools in one code action request

\* ------------------------------------------------------------- vocabulary
Docs      == {"a.ts", "b.ts"}
NoEditor  == "<none>"
Undefined == <<"<undefined>">>          \* a missing JSON field / JS undefined
LF        == "\n"
CR        == "\r"

TagSecurity   == "[SECURITY]"
TagComplexity == "[COMPLEXITY]"
TagPlain      == "DevSentinel: "
SourceName    == "DevSentinel"

Categories == {"plain", "security", "complexity"}
Commands   == {"review", "roast", "securityScan", "complexity"}
ErrorCodes == {"ECONNREFUSED", "ECONNABORTED", "ERR_BAD_RESPONSE"}

\* the category a command writes; roast writes none
CategoryOf(cmd) ==
    CASE cmd = "review"       -> "plain"
      [] cmd = "securityScan" -> "security"
      [] cmd = "complexity"   -> "complexity"
      [] OTHER                -> "none"

\* ---------------------------------------------------------- string helpers
\* String.prototype.includes for a one-token needle
Includes(s, tok) == \E i \in 1..Len(s) : s[i] = tok

\* JS truthiness of a value that is a string or undefined
Truthy(s) == s # Undefined /\ s # <<>>

\* JS truthiness of a one-token string; NoValue is the missing field
NoValue == "<undefined>"
TruthyStr(s) == s # NoValue /\ s # ""

\* fixedCode.replace(/[\r\n]+$/, '')
RECURSIVE StripTrailingNewlines(_)
StripTrailingNewlines(s) ==
    IF s # <<>> /\ s[Len(s)] \in {LF, CR}
    THEN StripTrailingNewlines(SubSeq(s, 1, Len(s) - 1))
    ELSE s

\* the editor splits inserted text into lines at CRLF, CR or LF
RECURSIVE SplitLines(_, _)
SplitLines(s, cur) ==
    IF s = <<>> THEN <<cur>>
    ELSE IF Head(s) = CR /\ Len(s) > 1 /\ s[2] = LF
         THEN <<cur>> \o SplitLines(Tail(Tail(s)), <<>>)
    ELSE IF Head(s) \in {LF, CR}
         THEN <<cur>> \o SplitLines(Tail(s), <<>>)
    ELSE SplitLines(Tail(s), Append(cur, Head(s)))

\* ------------------------------------------------------- backend responses
\* comments a /review or /security-scan response may carry: an ordinary one
\* and one without severity whose text holds the category tags
CommentPool ==
    { [line_number |-> 1, severity |-> "error",
       suggestion |-> <<"avoid eval">>, fixed_code |-> <<"safeEval(x)">>],
      [line_number |-> 2, severity |-> NoValue,
       suggestion |-> <<TagSecurity, " ", TagComplexity>>, fixed_code |-> <<LF>>] }

\* the replacement texts a comment may carry
FixedCodes ==
    { Undefined, <<>>, <<LF>>, <<"safeEval(x)">>, <<"safeEval(x)", CR, LF>>,
      <<"x", LF, "y">> }

\* comments that differ in their anchor and their replacement only
FixCommentPool ==
    { [line_number |-> 2, severity |-> "warning",
       suggestion |-> <<"avoid eval">>, fixed_code |-> fc] : fc \in FixedCodes }

\* functions a /complexity response may carry
FunctionPool ==
    { [name |-> <<"foo">>, line_number |-> 1, complexity |-> "15", is_complex |-> TRUE],
      [name |-> <<"bar">>, line_number |-> 2, complexity |-> "3", is_complex |-> FALSE],
      [name |-> <<TagSecurity>>, line_number |-> 2, complexity |-> "12", is_complex |-> TRUE] }

Threshold == "10"

SeqsUpTo(S, n) == UNION { [1..k -> S] : k \in 0..n }

\* response.data of POST /review and POST /security-scan
\* present: the field is in the JSON body; without it the field reads undefined
PayloadsOf(pool) ==
    { [present |-> TRUE, comments |-> cs] : cs \in SeqsUpTo(pool, MaxComments) }
      \cup { [present |-> FALSE, comments |-> <<>>] }

CommentPayloads == PayloadsOf(CommentPool)
FixPayloads     == PayloadsOf(FixCommentPool)

\* response.data of POST /complexity
ComplexityPayloads ==
    { [present |-> TRUE, functions |-> fs, threshold |-> Threshold] :
        fs \in SeqsUpTo(FunctionPool, MaxComments) }
      \cup { [present |-> FALSE, functions |-> <<>>, threshold |-> Threshold] }

\* the same with up to MaxFunctions functions, so that flagged and unflagged
\* functions come in one response
FunctionPayloads ==
    { [present |-> TRUE, functions |-> fs, threshold |-> Threshold] :
        fs \in SeqsUpTo(FunctionPool, MaxFunctions) }
      \cup { [present |-> FALSE, functions |-> <<>>, threshold |-> Threshold] }

\* a well-formed comment and a malformed one: line_number 0 makes the range
\* constructor throw
IngestPool ==
    { [line_number |-> 1, severity |-> "error",
       suggestion |-> <<"avoid eval">>, fixed_code |-> <<"safeEval(x)">>],
      [line_number |-> 0, severity |-> "warning",
       suggestion |-> <<"no such line">>, fixed_code |-> Undefined] }

\* responses in which a malformed comment may follow well-formed ones
IngestPayloads ==
    { [present |-> TRUE, comments |-> cs] : cs \in SeqsUpTo(IngestPool, MaxIngestComments) }
      \cup { [present |-> FALSE, comments |-> <<>>] }

\* response.data of POST /roast: with the roast, and without it
RoastPayloads ==
    { [present |-> TRUE,  roast |-> <<"nice", LF, "code">>],
      [present |-> FALSE, roast |-> Undefined] }

\* escapeHtml(undefined) throws
RoastThrows(data) == ~data.present

\* comments that differ in their severity only: the four values of the
\* protocol, none, the empty string and a value outside the protocol
SeverityPool ==
    { [line_number |-> 1, severity |-> sev,
       suggestion |-> <<"avoid eval">>, fixed_code |-> <<"safeEval(x)">>] :
      sev \in {"error", "warning", "info", "hint", NoValue, "", "critical"} }

SeverityPayloads == PayloadsOf(SeverityPool)

\* ------------------------------------------------------------- diagnostics
mapSeverity(severity) ==
    CASE severity = "error"   -> "Error"
      [] severity = "warning" -> "Warning"
      [] severity = "info"    -> "Information"
      [] severity = "hint"    -> "Hint"
      [] OTHER                -> "Warning"

\* review.severity || dflt
OrDefault(severity, dflt) == IF TruthyStr(severity) THEN severity ELSE dflt

\* mutant: the 1-based line number is used as the anchor
reviewDiagnostic_OneBased(review, id) ==
    [ line     |-> review.line_number,
      message  |-> <<TagPlain>> \o review.suggestion,
      severity |-> mapSeverity(OrDefault(review.severity, "warning")),
      source   |-> SourceName,
      code     |-> review.fixed_code,
      cat      |-> "plain",
      req      |-> id ]

\* one iteration of the loop of devsentinel.review.  cat and req are history
\* fields: the command that created the diagnostic and its request.
reviewDiagnostic(review, id) ==
    [ line     |-> review.line_number - 1,
      message  |-> <<TagPlain>> \o review.suggestion,
      severity |-> mapSeverity(OrDefault(review.severity, "warning")),
      source   |-> SourceName,
      code     |-> review.fixed_code,
      cat      |-> "plain",
      req      |-> id ]

\* mutant: the security scan has the default severity of the review
securityDiagnostic_DefaultWarning(review, id) ==
    [ line     |-> review.line_number - 1,
      message  |-> <<TagSecurity, " ", TagPlain>> \o review.suggestion,
      severity |-> mapSeverity(OrDefault(review.severity, "warning")),
      source   |-> SourceName,
      code     |-> review.fixed_code,
      cat      |-> "security",
      req      |-> id ]

securityDiagnostic(review, id) ==
    [ line     |-> review.line_number - 1,
      message  |-> <<TagSecurity, " ", TagPlain>> \o review.suggestion,
      severity |-> mapSeverity(OrDefault(review.severity, "error")),
      source   |-> SourceName,
      code     |-> review.fixed_code,
      cat      |-> "security",
      req      |-> id ]

complexityDiagnostic(f, threshold, id) ==
    [ line     |-> f.line_number - 1,
      message  |-> <<TagComplexity, " ", TagPlain, "Function '">> \o f.name
                   \o <<"' has cyclomatic complexity of ", f.complexity,
                        " (threshold: ", threshold, ")">>,
      severity |-> "Warning",
      source   |-> SourceName,
      code     |-> Undefined,
      cat      |-> "complexity",
      req      |-> id ]

\* new vscode.Range(lineIndex, 0, lineIndex, MAX_VALUE) throws on a negative line
RangeThrows(lineIndex) == lineIndex < 0

\* the synchronous part after the await throws before diagnosticCollection.set
CommentsThrow(data) ==
    \/ ~data.present
    \/ \E i \in 1..Len(data.comments) : RangeThrows(data.comments[i].line_number - 1)

\* mutant: every function of the response is reported
complexFunctions_All(functions) == functions

complexFunctions(functions) == SelectSeq(functions, LAMBDA f : f.is_complex)

FunctionsThrow(data) ==
    \/ ~data.present
    \/ \E i \in 1..Len(complexFunctions(data.functions)) :
          RangeThrows(complexFunctions(data.functions)[i].line_number - 1)

MapSeq(s, F(_)) == [i \in 1..Len(s) |-> F(s[i])]

\* existing.filter(d => !d.message.includes(tag))
kept(existing, tag) == SelectSeq(existing, LAMBDA d : ~Includes(d.message, tag))

\* ------------------------------------------------------------ configuration
\* the user's setting devsentinel.requestTimeout: not set, 0, or a number of
\* milliseconds (even, so that 1.5 times it is an integer)
NotSet == -1
ConfigTimeouts == {NotSet, 0, 2000}

\* the default the extension manifest declares for devsentinel.requestTimeout
PackageDefault == 300000

\* config.get<number>('requestTimeout'): the user's setting, or the declared
\* default when there is none
configGet(setting) == IF setting = NotSet THEN PackageDefault ELSE setting

InitialText ==
    [d \in Docs |-> IF d = "a.ts" THEN << <<"let x">>, <<"eval(x)">>, <<"return">> >>
                    ELSE << <<"pass">> >>]

\* -------------------------------------------------------------------- state
VARIABLES
    activeEditor,          \* vscode.window.activeTextEditor: a document or NoEditor
    openDocs,              \* documents open in the editor
    text,                  \* text[d]: the lines of d
    diagnosticCollection,  \* diagnosticCollection.get(d): sequence of diagnostics
    requestTimeout,        \* the user's setting devsentinel.requestTimeout
    inflight,              \* analysis requests suspended at axios.post
    nextId,                \* id of the next request
    probes,                \* probes[o]: liveness GETs in flight, by origin o
    probeCount,            \* checkConnection commands run so far
    statusBarItem,         \* text and tooltip of the status bar item
    viewResolved,          \* sidebarProvider._view is set
    sidebarDot,            \* class of the status dot of the webview
    sidebarMsgs,           \* sidebarMsgs[id]: message types the webview got for request id
    edits,                 \* quick fixes applied so far
    lastOk,                \* history: lastOk[d][c] is the id of the request of
                           \* category c that completed successfully last on d,
                           \* 0 if none did
    lastEvent              \* history: the last step of a command handler, of
                           \* the probe or of the quick fix; note is the
                           \* show*Message call it made

vars == << activeEditor, openDocs, text, diagnosticCollection, requestTimeout,
           inflight, nextId, probes, probeCount, statusBarItem, viewResolved,
           sidebarDot, sidebarMsgs, edits, lastOk, lastEvent >>

ProbeOrigins == {"activate", "command", "refused"}

Init ==
    /\ activeEditor = NoEditor
    /\ openDocs = {}
    /\ text = InitialText
    /\ diagnosticCollection = [d \in Docs |-> <<>>]
    /\ requestTimeout \in ConfigTimeouts
    /\ inflight = {}
    /\ nextId = 1
    /\ probes = [o \in ProbeOrigins |-> IF o = "activate" THEN 1 ELSE 0]
    /\ probeCount = 0
    /\ statusBarItem = [text |-> "$(shield) DevSentinel", tooltip |-> NoValue]
    /\ viewResolved = FALSE
    /\ sidebarDot = "none"
    /\ sidebarMsgs = <<>>
    /\ edits = 0
    /\ lastOk = [d \in Docs |-> [c \in Categories |-> 0]]
    /\ lastEvent = [op |-> "activate"]

\* ------------------------------------------------------------------- editor
\* the user opens or focuses a document
showDocument(d) ==
    /\ activeEditor # d
    /\ activeEditor' = d
    /\ openDocs' = openDocs \cup {d}
    /\ UNCHANGED << lastEvent, text, diagnosticCollection, requestTimeout, inflight, nextId,
                    probes, probeCount, statusBarItem, viewResolved, sidebarDot,
                    sidebarMsgs, edits, lastOk >>

\* the user closes a document, and the editor focuses another open one if
\* there is one; activate registers no handler for this event
closeDocument(d) ==
    /\ d \in openDocs
    /\ openDocs' = openDocs \ {d}
    /\ activeEditor' = IF activeEditor # d THEN activeEditor
                       ELSE IF openDocs \ {d} = {} THEN NoEditor
                       ELSE CHOOSE e \in openDocs \ {d} : TRUE
    /\ UNCHANGED << lastEvent, text, diagnosticCollection, requestTimeout, inflight, nextId,
                    probes, probeCount, statusBarItem, viewResolved, sidebarDot,
                    sidebarMsgs, edits, lastOk >>

\* the user changes devsentinel.requestTimeout in the settings
setRequestTimeout(t) ==
    /\ requestTimeout # t
    /\ requestTimeout' = t
    /\ UNCHANGED << lastEvent, activeEditor, openDocs, text, diagnosticCollection,
                    inflight, nextId, probes, probeCount, statusBarItem,
                    viewResolved, sidebarDot, sidebarMsgs, edits, lastOk >>

\* ------------------------------------------------------------------ sidebar
resolveWebviewView ==
    /\ ~viewResolved
    /\ viewResolved' = TRUE
    /\ sidebarDot' = "status-dot"
    /\ UNCHANGED << lastEvent, activeEditor, openDocs, text, diagnosticCollection,
                    requestTimeout, inflight, nextId, probes, probeCount,
                    statusBarItem, sidebarMsgs, edits, lastOk >>

\* sidebarProvider.postMessage of a message of request id: dropped without a view
postMessage(msgs, id, type) ==
    IF viewResolved THEN [msgs EXCEPT ![id] = Append(@, type)] ELSE msgs

\* ---------------------------------------------------------------- commands
DefaultReviewTimeout     == 90000
DefaultRoastTimeout      == 60000
DefaultSecurityTimeout   == 90000
DefaultComplexityTimeout == 60000

\* value || dflt
TimeoutOr(value, dflt) == IF value # 0 THEN value ELSE dflt

\* mutant: review ignores the setting
reviewTimeout_IgnoresConfig(cfg) == DefaultReviewTimeout

reviewTimeout(cfg)       == TimeoutOr(configGet(cfg), DefaultReviewTimeout)
roastTimeout(cfg)        == TimeoutOr(configGet(cfg), DefaultRoastTimeout)

\* mutant: the security scan uses the timeout as it is
securityScanTimeout_NoFactor(cfg) == TimeoutOr(configGet(cfg), DefaultSecurityTimeout)

securityScanTimeout(cfg) == (TimeoutOr(configGet(cfg), DefaultSecurityTimeout) * 3) \div 2
complexityTimeout(cfg)   == TimeoutOr(configGet(cfg), DefaultComplexityTimeout)

Notify(kind, txt) == [kind |-> kind, text |-> txt]
NoNote == Notify("none", "")

\* mutant: no request is sent while the status bar shows the backend offline
Invoke_GatedOffline(cmd, timeout, noEditorText) ==
    IF activeEditor = NoEditor \/ statusBarItem.tooltip = "Offline"
    THEN /\ lastEvent' = [op |-> "noEditor", cmd |-> cmd,
                          note |-> Notify("error", noEditorText)]
         /\ UNCHANGED << activeEditor, openDocs, text, diagnosticCollection,
                         requestTimeout, inflight, nextId, probes, probeCount,
                         statusBarItem, viewResolved, sidebarDot, sidebarMsgs,
                         edits, lastOk >>
    ELSE /\ nextId <= MaxRequests
         /\ inflight' = inflight \cup
               { [id |-> nextId, cmd |-> cmd, doc |-> activeEditor, timeout |-> timeout] }
         /\ nextId' = nextId + 1
         /\ sidebarMsgs' = postMessage(Append(sidebarMsgs, <<>>), nextId, "loading")
         /\ lastEvent' = [op |-> "invoke", cmd |-> cmd, doc |-> activeEditor, id |-> nextId]
         /\ UNCHANGED << activeEditor, openDocs, text, diagnosticCollection,
                         requestTimeout, probes, probeCount, statusBarItem,
                         viewResolved, sidebarDot, edits, lastOk >>

\* the part of a command handler up to the await of axios.post
Invoke(cmd, timeout, noEditorText) ==
    IF activeEditor = NoEditor
    THEN /\ lastEvent' = [op |-> "noEditor", cmd |-> cmd,
                          note |-> Notify("error", noEditorText)]
         /\ UNCHANGED << activeEditor, openDocs, text, diagnosticCollection,
                         requestTimeout, inflight, nextId, probes, probeCount,
                         statusBarItem, viewResolved, sidebarDot, sidebarMsgs,
                         edits, lastOk >>
    ELSE /\ nextId <= MaxRequests
         /\ inflight' = inflight \cup
               { [id |-> nextId, cmd |-> cmd, doc |-> activeEditor, timeout |-> timeout] }
         /\ nextId' = nextId + 1
         /\ sidebarMsgs' = postMessage(Append(sidebarMsgs, <<>>), nextId, "loading")
         /\ lastEvent' = [op |-> "invoke", cmd |-> cmd, doc |-> activeEditor, id |-> nextId]
         /\ UNCHANGED << activeEditor, openDocs, text, diagnosticCollection,
                         requestTimeout, probes, probeCount, statusBarItem,
                         viewResolved, sidebarDot, edits, lastOk >>

reviewInvoke ==
    Invoke("review", reviewTimeout(requestTimeout), "No active editor found.")
roastInvoke ==
    Invoke("roast", roastTimeout(requestTimeout), "No active editor found to roast.")
securityScanInvoke ==
    Invoke("securityScan", securityScanTimeout(requestTimeout), "No active editor found.")
complexityInvoke ==
    Invoke("complexity", complexityTimeout(requestTimeout), "No active editor found.")

\* what the catch blocks have in common: the request is over, the sidebar gets
\* an error message, the user a notification
\* the timer of axios runs only for a timeout above 0
Catch(r, code, note, startProbe) ==
    /\ code = "ECONNABORTED" => r.timeout > 0
    /\ inflight' = inflight \ {r}
    /\ sidebarMsgs' = postMessage(sidebarMsgs, r.id, "error")
    /\ probes' = IF startProbe THEN [probes EXCEPT !["refused"] = @ + 1] ELSE probes
    /\ lastEvent' = [op |-> "failure", cmd |-> r.cmd, doc |-> r.doc, id |-> r.id,
                     code |-> code, note |-> note]
    /\ UNCHANGED << activeEditor, openDocs, text, diagnosticCollection,
                    requestTimeout, nextId, probeCount, statusBarItem,
                    viewResolved, sidebarDot, edits, lastOk >>

\* mutant: the catch block of review clears the document's diagnostics
reviewCatch_ClearsLedger(r, code) ==
    /\ diagnosticCollection' = [diagnosticCollection EXCEPT ![r.doc] = <<>>]
    /\ inflight' = inflight \ {r}
    /\ sidebarMsgs' = postMessage(sidebarMsgs, r.id, "error")
    /\ probes' = IF code = "ECONNREFUSED"
                 THEN [probes EXCEPT !["refused"] = @ + 1] ELSE probes
    /\ lastEvent' = [op |-> "failure", cmd |-> r.cmd, doc |-> r.doc, id |-> r.id,
                     code |-> code, note |-> Notify("error", "DevSentinel Error: msg")]
    /\ UNCHANGED << activeEditor, openDocs, text, requestTimeout, nextId,
                    probeCount, statusBarItem, viewResolved, sidebarDot, edits,
                    lastOk >>

reviewCatch(r, code) ==
    IF code = "ECONNREFUSED"
    THEN Catch(r, code, Notify("error", "Could not connect to backend. Is it running?"), TRUE)
    ELSE IF code = "ECONNABORTED"
    THEN Catch(r, code, Notify("error", "Request timed out. Try increasing requestTimeout"), FALSE)
    ELSE Catch(r, code, Notify("error", "DevSentinel Error: msg"), FALSE)

roastCatch(r, code) ==
    Catch(r, code, Notify("error", "Roast Failed: msg"), FALSE)

securityScanCatch(r, code) ==
    IF code = "ECONNREFUSED"
    THEN Catch(r, code, Notify("error", "Could not connect to backend. Is it running?"), FALSE)
    ELSE IF code = "ECONNABORTED"
    THEN Catch(r, code, Notify("error", "Security scan timed out."), FALSE)
    ELSE Catch(r, code, Notify("error", "DevSentinel Security Scan Error: msg"), FALSE)

\* mutant: the catch block of complexity posts the request again
complexityCatch_Retries(r, code) ==
    /\ inflight' = (inflight \ {r}) \cup
          { [id |-> nextId, cmd |-> r.cmd, doc |-> r.doc, timeout |-> r.timeout] }
    /\ nextId' = nextId + 1
    /\ sidebarMsgs' = postMessage(Append(sidebarMsgs, <<>>), r.id, "error")
    /\ lastEvent' = [op |-> "failure", cmd |-> r.cmd, doc |-> r.doc, id |-> r.id,
                     code |-> code, note |-> Notify("error", "DevSentinel Complexity Error: msg")]
    /\ UNCHANGED << activeEditor, openDocs, text, diagnosticCollection,
                    requestTimeout, probes, probeCount, statusBarItem,
                    viewResolved, sidebarDot, edits, lastOk >>

complexityCatch(r, code) ==
    IF code = "ECONNREFUSED"
    THEN Catch(r, code, Notify("error", "Could not connect to backend. Is it running?"), FALSE)
    ELSE IF code = "ECONNABORTED"
    THEN Catch(r, code, Notify("error", "Complexity analysis timed out."), FALSE)
    ELSE Catch(r, code, Notify("error", "DevSentinel Complexity Error: msg"), FALSE)

\* axios.post rejects: connection refused, timeout, or a non-2xx status
reviewFailure(r, code)       == r.cmd = "review"       /\ reviewCatch(r, code)
roastFailure(r, code)        == r.cmd = "roast"        /\ roastCatch(r, code)
securityScanFailure(r, code) == r.cmd = "securityScan" /\ securityScanCatch(r, code)
complexityFailure(r, code)   == r.cmd = "complexity"   /\ complexityCatch(r, code)

\* history: how many diagnostics of each category a set call dropped
Evicted(existing, result, id) ==
    [c \in Categories |->
        Len(SelectSeq(existing, LAMBDA x : x.cat = c))
          - Len(SelectSeq(result, LAMBDA x : x.cat = c /\ x.req # id))]

\* what the try blocks have in common after diagnosticCollection.set
Done(r, data, n, type, note) ==
    /\ inflight' = inflight \ {r}
    /\ sidebarMsgs' = postMessage(sidebarMsgs, r.id, type)
    /\ lastOk' = IF r.cmd = "roast" THEN lastOk
                 ELSE [lastOk EXCEPT ![r.doc][CategoryOf(r.cmd)] = r.id]
    /\ lastEvent' = [op |-> "success", cmd |-> r.cmd, doc |-> r.doc, id |-> r.id,
                     data |-> data, count |-> n, note |-> note,
                     evicted |-> Evicted(diagnosticCollection[r.doc],
                                         diagnosticCollection'[r.doc], r.id)]
    /\ UNCHANGED << activeEditor, openDocs, text, requestTimeout, nextId, probes,
                    probeCount, statusBarItem, viewResolved, sidebarDot, edits >>

\* mutant: the review that follows a failed request leaves the ledger as it is
reviewSet_SkippedAfterFailure(existing, comments, id) ==
    IF lastEvent.op = "failure" THEN existing
    ELSE MapSeq(comments, LAMBDA c : reviewDiagnostic(c, id))

\* mutant: set is called before the last diagnostic is pushed
reviewSet_BeforeLast(existing, comments, id) ==
    MapSeq(SubSeq(comments, 1, Len(comments) - 1), LAMBDA c : reviewDiagnostic(c, id))

\* new contents of the collection for the document of a review response
reviewSet(existing, comments, id) ==
    MapSeq(comments, LAMBDA c : reviewDiagnostic(c, id))

\* mutant: a scan without findings returns before diagnosticCollection.set
securityScanSet_SkipsEmpty(existing, comments, id) ==
    IF comments = <<>> THEN existing
    ELSE kept(existing, TagSecurity) \o MapSeq(comments, LAMBDA c : securityDiagnostic(c, id))

securityScanSet(existing, comments, id) ==
    kept(existing, TagSecurity) \o MapSeq(comments, LAMBDA c : securityDiagnostic(c, id))

\* mutant: the new diagnostics are appended to all existing ones
complexitySet_NoEviction(existing, functions, threshold, id) ==
    existing
      \o MapSeq(complexFunctions(functions), LAMBDA f : complexityDiagnostic(f, threshold, id))

complexitySet(existing, functions, threshold, id) ==
    kept(existing, TagComplexity)
      \o MapSeq(complexFunctions(functions), LAMBDA f : complexityDiagnostic(f, threshold, id))

\* mutant: the diagnostics are set on the document of the active editor
reviewResponse_OnActiveEditor(r, data) ==
    /\ r.cmd = "review"
    /\ IF CommentsThrow(data)
       THEN reviewCatch(r, NoValue)
       ELSE /\ diagnosticCollection' =
                  [diagnosticCollection EXCEPT
                      ![activeEditor] = reviewSet(@, data.comments, r.id)]
            /\ Done(r, data, Len(data.comments), "result",
                    IF Len(data.comments) = 0
                    THEN Notify("info", "Code looks good! No issues found.")
                    ELSE Notify("info", "Found n issues."))

\* the 2xx response of POST /review arrives
reviewResponse(r, data) ==
    /\ r.cmd = "review"
    /\ IF CommentsThrow(data)
       THEN reviewCatch(r, NoValue)
       ELSE /\ diagnosticCollection' =
                  [diagnosticCollection EXCEPT
                      ![r.doc] = reviewSet(@, data.comments, r.id)]
            /\ Done(r, data, Len(data.comments), "result",
                    IF Len(data.comments) = 0
                    THEN Notify("info", "Code looks good! No issues found.")
                    ELSE Notify("info", "Found n issues."))

\* the 2xx response of POST /roast arrives
\* the 'roast' message is posted before getRoastHtml(roast) is called; with
\* no roast in the body escapeHtml throws and the catch block posts 'error'
roastResponse(r, data) ==
    /\ r.cmd = "roast"
    /\ UNCHANGED diagnosticCollection
    /\ IF RoastThrows(data)
       THEN /\ inflight' = inflight \ {r}
            /\ sidebarMsgs' = postMessage(postMessage(sidebarMsgs, r.id, "roast"),
                                          r.id, "error")
            /\ lastEvent' = [op |-> "failure", cmd |-> r.cmd, doc |-> r.doc,
                             id |-> r.id, code |-> NoValue,
                             note |-> Notify("error", "Roast Failed: msg")]
            /\ UNCHANGED << activeEditor, openDocs, text, requestTimeout, nextId,
                            probes, probeCount, statusBarItem, viewResolved,
                            sidebarDot, edits, lastOk >>
       ELSE Done(r, data, 0, "roast", NoNote)

\* the 2xx response of POST /security-scan arrives
securityScanResponse(r, data) ==
    /\ r.cmd = "securityScan"
    /\ IF CommentsThrow(data)
       THEN securityScanCatch(r, NoValue)
       ELSE /\ diagnosticCollection' =
                  [diagnosticCollection EXCEPT
                      ![r.doc] = securityScanSet(@, data.comments, r.id)]
            /\ Done(r, data, Len(data.comments), "result",
                    IF Len(data.comments) = 0
                    THEN Notify("info", "No security issues found!")
                    ELSE Notify("warning", "Found n security issue(s)."))

\* the 2xx response of POST /complexity arrives
complexityResponse(r, data) ==
    /\ r.cmd = "complexity"
    /\ IF FunctionsThrow(data)
       THEN complexityCatch(r, NoValue)
       ELSE /\ diagnosticCollection' =
                  [diagnosticCollection EXCEPT
                      ![r.doc] = complexitySet(@, data.functions, data.threshold, r.id)]
            /\ Done(r, data, Len(complexFunctions(data.functions)), "complexity",
                    IF Len(complexFunctions(data.functions)) = 0
                    THEN Notify("info", "All n function(s) within threshold.")
                    ELSE Notify("warning", "n of m function(s) exceed complexity threshold."))

\* ------------------------------------------------------ connectivity probe
\* the devsentinel.checkConnection command up to the await
checkConnectionInvoke ==
    /\ probeCount < MaxProbes
    /\ probeCount' = probeCount + 1
    /\ probes' = [probes EXCEPT !["command"] = @ + 1]
    /\ lastEvent' = [op |-> "probe", origin |-> "command", n |-> probeCount + 1]
    /\ UNCHANGED << activeEditor, openDocs, text, diagnosticCollection,
                    requestTimeout, inflight, nextId, statusBarItem, viewResolved,
                    sidebarDot, sidebarMsgs, edits, lastOk >>

\* how the liveness GET of the backend root can settle
ProbeOutcomes == {"2xx", "non-2xx", "ECONNREFUSED", "ETIMEDOUT"}

\* mutant: every HTTP response resolves the GET
getResolves_AnyStatus(outcome) == outcome \in {"2xx", "non-2xx"}

\* await axios.get(url) resolves on a 2xx status and rejects otherwise
getResolves(outcome) == outcome = "2xx"

\* checkBackendConnection after axios.get settles with outcome: the try block
\* runs to return true, or the catch block to return false.
\* Only the checkConnection command posts the result to the sidebar.
checkBackendConnection(origin, outcome) ==
    /\ probes[origin] > 0
    /\ probes' = [probes EXCEPT ![origin] = @ - 1]
    /\ statusBarItem' = IF getResolves(outcome)
                        THEN [text |-> "$(shield) DevSentinel", tooltip |-> "Online"]
                        ELSE [text |-> "$(error) DevSentinel", tooltip |-> "Offline"]
    /\ sidebarDot' = IF origin = "command" /\ viewResolved
                     THEN (IF getResolves(outcome) THEN "status-dot online"
                           ELSE "status-dot offline")
                     ELSE sidebarDot
    /\ lastEvent' = [op |-> "probeDone", origin |-> origin, outcome |-> outcome,
                     online |-> getResolves(outcome), left |-> probes[origin] - 1]
    /\ UNCHANGED << activeEditor, openDocs, text, diagnosticCollection,
                    requestTimeout, inflight, nextId, probeCount, viewResolved,
                    sidebarMsgs, edits, lastOk >>

\* ---------------------------------------------------------------- quick fix
\* the code action of one diagnostic; edit is the list of text replacements of
\* fix.edit, empty when no WorkspaceEdit was created
\* mutant: the test is fixedCode !== undefined, so an empty string gets an edit
createFix_EditForEmpty(diagnostic) ==
    [ title       |-> <<"Apply Fix: ">> \o diagnostic.message,
      edit        |-> IF diagnostic.code # Undefined
                      THEN << [line |-> diagnostic.line,
                               newText |-> StripTrailingNewlines(diagnostic.code)] >>
                      ELSE <<>>,
      diagnostics |-> <<diagnostic>>,
      isPreferred |-> TRUE ]

\* mutant: the replacement is inserted with its trailing newlines
createFix_NoStrip(diagnostic) ==
    [ title       |-> <<"Apply Fix: ">> \o diagnostic.message,
      edit        |-> IF Truthy(diagnostic.code)
                      THEN << [line |-> diagnostic.line, newText |-> diagnostic.code] >>
                      ELSE <<>>,
      diagnostics |-> <<diagnostic>>,
      isPreferred |-> TRUE ]

createFix(diagnostic) ==
    [ title       |-> <<"Apply Fix: ">> \o diagnostic.message,
      edit        |-> IF Truthy(diagnostic.code)
                      THEN << [line |-> diagnostic.line,
                               newText |-> StripTrailingNewlines(diagnostic.code)] >>
                      ELSE <<>>,
      diagnostics |-> <<diagnostic>>,
      isPreferred |-> TRUE ]

\* diagnostics of other tools, all with a code field: of a linter, of a tool
\* that sets no source, and of a tool whose source differs in case only
ForeignPool ==
    { [line |-> 1, message |-> <<"eval can be harmful">>, severity |-> "Warning",
       source |-> src, code |-> <<"no-eval">>, cat |-> "foreign", req |-> 0] :
      src \in {"eslint", NoValue, "devsentinel"} }

\* mutant: a fix is created for every diagnostic of the request
provideCodeActions_NoFilter(diagnostics) ==
    MapSeq(diagnostics, createFix)

provideCodeActions(diagnostics) ==
    MapSeq(SelectSeq(diagnostics, LAMBDA d : d.source = SourceName), createFix)

\* the editor applies the replacement of range (line,0)-(line,MAX_VALUE): the
\* end column is clamped to the line's length; a line past the end of the
\* document is clamped to the end of the last line
ApplyEdit(lines, e) ==
    LET segs == SplitLines(e.newText, <<>>)
        n    == Len(lines)
    IN  IF e.line < n
        THEN SubSeq(lines, 1, e.line) \o segs \o SubSeq(lines, e.line + 2, n)
        ELSE SubSeq(lines, 1, n - 1) \o << lines[n] \o Head(segs) >> \o Tail(segs)

\* mutant: applying a fix removes its diagnostic from the collection
applyFix_ClearsDiagnostic(d, i) ==
    /\ edits < MaxEdits
    /\ d \in openDocs
    /\ i \in 1..Len(provideCodeActions(diagnosticCollection[d]))
    /\ LET fix == provideCodeActions(diagnosticCollection[d])[i]
       IN  /\ text' = IF fix.edit = <<>> THEN text
                      ELSE [text EXCEPT ![d] = ApplyEdit(@, fix.edit[1])]
           /\ diagnosticCollection' =
                 [diagnosticCollection EXCEPT
                    ![d] = SelectSeq(@, LAMBDA x : x # fix.diagnostics[1])]
           /\ lastEvent' = [op |-> "applyFix", doc |-> d, fix |-> fix,
                            applied |-> fix.edit # <<>>, n |-> edits + 1]
    /\ edits' = edits + 1
    /\ UNCHANGED << activeEditor, openDocs, requestTimeout,
                    inflight, nextId, probes, probeCount, statusBarItem,
                    viewResolved, sidebarDot, sidebarMsgs, lastOk >>

\* the user picks the quick fix of the i-th diagnostic of document d
applyFix(d, i) ==
    /\ edits < MaxEdits
    /\ d \in openDocs
    /\ i \in 1..Len(provideCodeActions(diagnosticCollection[d]))
    /\ LET fix == provideCodeActions(diagnosticCollection[d])[i]
       IN  /\ text' = IF fix.edit = <<>> THEN text
                      ELSE [text EXCEPT ![d] = ApplyEdit(@, fix.edit[1])]
           /\ lastEvent' = [op |-> "applyFix", doc |-> d, fix |-> fix,
                            applied |-> fix.edit # <<>>, n |-> edits + 1]
    /\ edits' = edits + 1
    /\ UNCHANGED << activeEditor, openDocs, diagnosticCollection, requestTimeout,
                    inflight, nextId, probes, probeCount, statusBarItem,
                    viewResolved, sidebarDot, sidebarMsgs, lastOk >>

\* the editor asks for the code actions of a position of document d where
\* other tools have diagnostics too: context.diagnostics holds theirs and
\* those of the ledger
requestCodeActions(d, foreign) ==
    /\ d \in openDocs
    /\ lastEvent' = [op |-> "codeActions", doc |-> d,
                     context |-> foreign \o diagnosticCollection[d],
                     actions |-> provideCodeActions(foreign \o diagnosticCollection[d])]
    /\ UNCHANGED << activeEditor, openDocs, text, diagnosticCollection,
                    requestTimeout, inflight, nextId, probes, probeCount,
                    statusBarItem, viewResolved, sidebarDot, sidebarMsgs, edits,
                    lastOk >>

\* -------------------------------------------------------------------- hover
\* the diagnostics the hover of (document, line) renders; empty: no hover
provideHover(diagnostics, line) ==
    SelectSeq(diagnostics, LAMBDA d : d.source = SourceName /\ d.line = line)

\* the legacy entry point: the replacement goes in as it is, with "\n" appended
createFixScan(diagnostic) ==
    [ title       |-> <<"Apply Fix: ">> \o diagnostic.message,
      edit        |-> IF Truthy(diagnostic.code)
                      THEN << [line |-> diagnostic.line,
                               newText |-> diagnostic.code \o <<LF>>] >>
                      ELSE <<>>,
      diagnostics |-> <<diagnostic>>,
      isPreferred |-> TRUE ]

provideCodeActionsScan(diagnostics) ==
    MapSeq(SelectSeq(diagnostics, LAMBDA d : d.source = SourceName), createFixScan)

\* the user picks the quick fix of the i-th diagnostic of document d in the
\* legacy entry point
applyFixScan(d, i) ==
    /\ edits < MaxEdits
    /\ d \in openDocs
    /\ i \in 1..Len(provideCodeActionsScan(diagnosticCollection[d]))
    /\ LET fix == provideCodeActionsScan(diagnosticCollection[d])[i]
       IN  /\ text' = IF fix.edit = <<>> THEN text
                      ELSE [text EXCEPT ![d] = ApplyEdit(@, fix.edit[1])]
           /\ lastEvent' = [op |-> "applyFixScan", doc |-> d, fix |-> fix,
                            applied |-> fix.edit # <<>>, n |-> edits + 1]
    /\ edits' = edits + 1
    /\ UNCHANGED << activeEditor, openDocs, diagnosticCollection, requestTimeout,
                    inflight, nextId, probes, probeCount, statusBarItem,
                    viewResolved, sidebarDot, sidebarMsgs, lastOk >>

\* what exec hands to the callback of git diff: an error or none, and stdout
GitOutcomes ==
    { [error |-> FALSE, stdout |-> <<>>],
      [error |-> FALSE, stdout |-> <<"@@ -2 +2 @@">>],
      [error |-> TRUE,  stdout |-> <<>>],
      [error |-> TRUE,  stdout |-> <<"@@ -2 +2 @@">>] }

\* mutant: the diff is what git printed, error or not
getGitDiff_KeepsStdout(git) == git.stdout

\* the promise never rejects: an error resolves to the empty string
getGitDiff(git) == IF git.error THEN <<>> ELSE git.stdout

\* the legacy review gives every diagnostic the severity Warning
scanDiagnostic(review, id) ==
    [ line     |-> review.line_number - 1,
      message  |-> <<TagPlain>> \o review.suggestion,
      severity |-> "Warning",
      source   |-> SourceName,
      code     |-> review.fixed_code,
      cat      |-> "plain",
      req      |-> id ]

scanSet(existing, comments, id) ==
    MapSeq(comments, LAMBDA c : scanDiagnostic(c, id))

\* devsentinel.review of the legacy entry point; the request has no timeout
reviewScanInvoke(git) ==
    IF activeEditor = NoEditor
    THEN /\ lastEvent' = [op |-> "noEditor", cmd |-> "reviewScan",
                          note |-> Notify("error", "No active editor found.")]
         /\ UNCHANGED << activeEditor, openDocs, text, diagnosticCollection,
                         requestTimeout, inflight, nextId, probes, probeCount,
                         statusBarItem, viewResolved, sidebarDot, sidebarMsgs,
                         edits, lastOk >>
    ELSE IF ~Truthy(getGitDiff(git))
    THEN /\ lastEvent' = [op |-> "noDiff", cmd |-> "reviewScan", doc |-> activeEditor,
                          git |-> git,
                          note |-> Notify("info", "No changes detected (git diff is empty).")]
         /\ UNCHANGED << activeEditor, openDocs, text, diagnosticCollection,
                         requestTimeout, inflight, nextId, probes, probeCount,
                         statusBarItem, viewResolved, sidebarDot, sidebarMsgs,
                         edits, lastOk >>
    ELSE /\ nextId <= MaxRequests
         /\ inflight' = inflight \cup
               { [id |-> nextId, cmd |-> "reviewScan", doc |-> activeEditor, timeout |-> 0] }
         /\ nextId' = nextId + 1
         /\ sidebarMsgs' = Append(sidebarMsgs, <<>>)
         /\ lastEvent' = [op |-> "invoke", cmd |-> "reviewScan", doc |-> activeEditor,
                          id |-> nextId, git |-> git]
         /\ UNCHANGED << activeEditor, openDocs, text, diagnosticCollection,
                         requestTimeout, probes, probeCount, statusBarItem,
                         viewResolved, sidebarDot, edits, lastOk >>

\* the catch block of the legacy review: one message for every failure
reviewScanCatch(r, code) ==
    /\ code = "ECONNABORTED" => r.timeout > 0
    /\ inflight' = inflight \ {r}
    /\ lastEvent' = [op |-> "failure", cmd |-> r.cmd, doc |-> r.doc, id |-> r.id,
                     code |-> code, note |-> Notify("error", "DevSentinel Error: msg")]
    /\ UNCHANGED << activeEditor, openDocs, text, diagnosticCollection,
                    requestTimeout, nextId, probes, probeCount, statusBarItem,
                    viewResolved, sidebarDot, sidebarMsgs, edits, lastOk >>

reviewScanFailure(r, code) == r.cmd = "reviewScan" /\ reviewScanCatch(r, code)

reviewScanResponse(r, data) ==
    /\ r.cmd = "reviewScan"
    /\ IF CommentsThrow(data)
       THEN reviewScanCatch(r, NoValue)
       ELSE /\ diagnosticCollection' =
                  [diagnosticCollection EXCEPT
                      ![r.doc] = scanSet(@, data.comments, r.id)]
            /\ inflight' = inflight \ {r}
            /\ lastOk' = [lastOk EXCEPT ![r.doc]["plain"] = r.id]
            /\ lastEvent' = [op |-> "success", cmd |-> r.cmd, doc |-> r.doc,
                             id |-> r.id, data |-> data,
                             count |-> Len(data.comments),
                             note |-> IF Len(data.comments) = 0
                                      THEN Notify("info", "Code looks good! No issues found.")
                                      ELSE Notify("info", "Found n issues.")]
            /\ UNCHANGED << activeEditor, openDocs, text, requestTimeout, nextId,
                            probes, probeCount, statusBarItem, viewResolved,
                            sidebarDot, sidebarMsgs, edits >>

\* the editor asks for the hover of a line of document d
requestHover(d, line) ==
    /\ d \in openDocs
    /\ line \in 0..(Len(text[d]) - 1)
    /\ lastEvent' = [op |-> "hover", doc |-> d, line |-> line,
                     shown |-> provideHover(diagnosticCollection[d], line)]
    /\ UNCHANGED << activeEditor, openDocs, text, diagnosticCollection,
                    requestTimeout, inflight, nextId, probes, probeCount,
                    statusBarItem, viewResolved, sidebarDot, sidebarMsgs, edits,
                    lastOk >>

\* --------------------------------------------------------------------- spec
Next ==
    \/ \E d \in Docs : showDocument(d)
    \/ \E d \in Docs : closeDocument(d)
    \/ \E t \in ConfigTimeouts : setRequestTimeout(t)
    \/ resolveWebviewView
    \/ reviewInvoke
    \/ roastInvoke
    \/ securityScanInvoke
    \/ complexityInvoke
    \/ \E r \in inflight, data \in CommentPayloads : reviewResponse(r, data)
    \/ \E r \in inflight, data \in RoastPayloads : roastResponse(r, data)
    \/ \E r \in inflight, data \in CommentPayloads : securityScanResponse(r, data)
    \/ \E r \in inflight, data \in ComplexityPayloads : complexityResponse(r, data)
    \/ \E r \in inflight, code \in ErrorCodes : reviewFailure(r, code)
    \/ \E r \in inflight, code \in ErrorCodes : roastFailure(r, code)
    \/ \E r \in inflight, code \in ErrorCodes : securityScanFailure(r, code)
    \/ \E r \in inflight, code \in ErrorCodes : complexityFailure(r, code)
    \/ checkConnectionInvoke
    \/ \E o \in ProbeOrigins, outcome \in ProbeOutcomes : checkBackendConnection(o, outcome)
    \/ \E d \in Docs, i \in 1..(3 * MaxComments) : applyFix(d, i)
    \/ \E d \in Docs, foreign \in SeqsUpTo(ForeignPool, MaxForeign) :
          requestCodeActions(d, foreign)
    \/ \E d \in Docs, line \in 0..2 : requestHover(d, line)

Spec == Init /\ [][Next]_vars

\* the four commands on documents that stay open, without the connectivity
\* display
LedgerInit == Init /\ requestTimeout = NotSet

LedgerNext ==
    \/ \E d \in Docs : showDocument(d)
    \/ reviewInvoke
    \/ roastInvoke
    \/ securityScanInvoke
    \/ complexityInvoke
    \/ \E r \in inflight, data \in CommentPayloads : reviewResponse(r, data)
    \/ \E r \in inflight, data \in RoastPayloads : roastResponse(r, data)
    \/ \E r \in inflight, data \in CommentPayloads : securityScanResponse(r, data)
    \/ \E r \in inflight, data \in ComplexityPayloads : complexityResponse(r, data)
    \/ \E r \in inflight, code \in ErrorCodes : reviewFailure(r, code)
    \/ \E r \in inflight, code \in ErrorCodes : roastFailure(r, code)
    \/ \E r \in inflight, code \in ErrorCodes : securityScanFailure(r, code)
    \/ \E r \in inflight, code \in ErrorCodes : complexityFailure(r, code)

LedgerSpec == LedgerInit /\ [][LedgerNext]_vars

\* the same with documents being closed
LifecycleNext ==
    \/ LedgerNext
    \/ \E d \in Docs : closeDocument(d)

LifecycleSpec == LedgerInit /\ [][LifecycleNext]_vars

\* the quick fix on diagnostics with and without a replacement, over every
\* replacement text; a.ts has the anchored line, b.ts is shorter
FixNext ==
    \/ \E d \in Docs : showDocument(d)
    \/ (nextId <= MaxFixRequests /\ reviewInvoke)
    \/ (nextId <= MaxFixRequests /\ complexityInvoke)
    \/ \E r \in inflight, data \in FixPayloads : reviewResponse(r, data)
    \/ \E r \in inflight, data \in ComplexityPayloads : complexityResponse(r, data)
    \/ \E d \in Docs, i \in 1..(3 * MaxComments) : applyFix(d, i)

FixSpec == LedgerInit /\ [][FixNext]_vars

\* the complexity command alone, on responses that mix flagged and unflagged
\* functions
ComplexityNext ==
    \/ \E d \in Docs : showDocument(d)
    \/ (nextId <= MaxFixRequests /\ complexityInvoke)
    \/ \E r \in inflight, data \in FunctionPayloads : complexityResponse(r, data)
    \/ \E r \in inflight, code \in ErrorCodes : complexityFailure(r, code)

ComplexitySpec == LedgerInit /\ [][ComplexityNext]_vars

\* responses that carry at least one finding each and are well-formed
FindingPayloads ==
    { p \in CommentPayloads : ~CommentsThrow(p) /\ p.comments # <<>> }
FlaggedPayloads ==
    { p \in ComplexityPayloads :
        ~FunctionsThrow(p) /\ complexFunctions(p.functions) # <<>> }

\* requests of the three categories in flight together, each answered with
\* findings
ConcurrentNext ==
    \/ \E d \in Docs : showDocument(d)
    \/ reviewInvoke
    \/ securityScanInvoke
    \/ complexityInvoke
    \/ \E r \in inflight, data \in FindingPayloads : reviewResponse(r, data)
    \/ \E r \in inflight, data \in FindingPayloads : securityScanResponse(r, data)
    \/ \E r \in inflight, data \in FlaggedPayloads : complexityResponse(r, data)

ConcurrentSpec == LedgerInit /\ [][ConcurrentNext]_vars

\* review and security scan on responses that may be malformed part-way
IngestNext ==
    \/ \E d \in Docs : showDocument(d)
    \/ reviewInvoke
    \/ securityScanInvoke
    \/ \E r \in inflight, data \in IngestPayloads : reviewResponse(r, data)
    \/ \E r \in inflight, data \in IngestPayloads : securityScanResponse(r, data)

IngestSpec == LedgerInit /\ [][IngestNext]_vars

\* the four commands under every setting of the timeout, each request ending
\* in a failure
TimeoutNext ==
    \/ \E d \in Docs : showDocument(d)
    \/ \E t \in ConfigTimeouts : setRequestTimeout(t)
    \/ reviewInvoke
    \/ roastInvoke
    \/ securityScanInvoke
    \/ complexityInvoke
    \/ \E r \in inflight, code \in ErrorCodes : reviewFailure(r, code)
    \/ \E r \in inflight, code \in ErrorCodes : roastFailure(r, code)
    \/ \E r \in inflight, code \in ErrorCodes : securityScanFailure(r, code)
    \/ \E r \in inflight, code \in ErrorCodes : complexityFailure(r, code)

TimeoutSpec == Init /\ [][TimeoutNext]_vars

\* the connectivity probe from its three callers: activation, the
\* checkConnection command, and the catch block of a refused review
ProbeNext ==
    \/ \E d \in Docs : showDocument(d)
    \/ resolveWebviewView
    \/ reviewInvoke
    \/ \E r \in inflight, code \in ErrorCodes : reviewFailure(r, code)
    \/ checkConnectionInvoke
    \/ \E o \in ProbeOrigins, outcome \in ProbeOutcomes : checkBackendConnection(o, outcome)

ProbeSpec == LedgerInit /\ [][ProbeNext]_vars

\* the four commands next to the connectivity probe, each request ending in a
\* failure
ConnectivityNext ==
    \/ \E d \in Docs : showDocument(d)
    \/ reviewInvoke
    \/ roastInvoke
    \/ securityScanInvoke
    \/ complexityInvoke
    \/ \E r \in inflight, code \in ErrorCodes : reviewFailure(r, code)
    \/ \E r \in inflight, code \in ErrorCodes : roastFailure(r, code)
    \/ \E r \in inflight, code \in ErrorCodes : securityScanFailure(r, code)
    \/ \E r \in inflight, code \in ErrorCodes : complexityFailure(r, code)
    \/ checkConnectionInvoke
    \/ \E o \in ProbeOrigins, outcome \in ProbeOutcomes : checkBackendConnection(o, outcome)

ConnectivitySpec == LedgerInit /\ [][ConnectivityNext]_vars

\* invocations that fail and invocations that succeed, of the command that
\* replaces the ledger, of the one that filters it and of the one that leaves
\* it alone
RetryNext ==
    \/ \E d \in Docs : showDocument(d)
    \/ reviewInvoke
    \/ roastInvoke
    \/ securityScanInvoke
    \/ \E r \in inflight, data \in CommentPayloads : reviewResponse(r, data)
    \/ \E r \in inflight, data \in RoastPayloads : roastResponse(r, data)
    \/ \E r \in inflight, data \in CommentPayloads : securityScanResponse(r, data)
    \/ \E r \in inflight, code \in ErrorCodes : reviewFailure(r, code)
    \/ \E r \in inflight, code \in ErrorCodes : roastFailure(r, code)
    \/ \E r \in inflight, code \in ErrorCodes : securityScanFailure(r, code)

RetrySpec == LedgerInit /\ [][RetryNext]_vars

\* code action requests on documents that have diagnostics of a review and of
\* other tools
CodeActionNext ==
    \/ \E d \in Docs : showDocument(d)
    \/ (nextId <= MaxFixRequests /\ reviewInvoke)
    \/ \E r \in inflight, data \in CommentPayloads : reviewResponse(r, data)
    \/ \E d \in Docs, foreign \in SeqsUpTo(ForeignPool, MaxForeign) :
          requestCodeActions(d, foreign)

CodeActionSpec == LedgerInit /\ [][CodeActionNext]_vars

\* the three commands on comments of every severity
SeverityNext ==
    \/ \E d \in Docs : showDocument(d)
    \/ (nextId <= MaxFixRequests /\ reviewInvoke)
    \/ (nextId <= MaxFixRequests /\ securityScanInvoke)
    \/ (nextId <= MaxFixRequests /\ complexityInvoke)
    \/ \E r \in inflight, data \in SeverityPayloads : reviewResponse(r, data)
    \/ \E r \in inflight, data \in SeverityPayloads : securityScanResponse(r, data)
    \/ \E r \in inflight, data \in ComplexityPayloads : complexityResponse(r, data)

SeveritySpec == LedgerInit /\ [][SeverityNext]_vars

\* a review next to everything that reads the ledger or runs beside it: the
\* roast, the connectivity probe, hover and code action requests, quick fixes
FrameNext ==
    \/ \E d \in Docs : showDocument(d)
    \/ (nextId <= MaxFixRequests /\ reviewInvoke)
    \/ (nextId <= MaxFixRequests /\ roastInvoke)
    \/ \E r \in inflight, data \in CommentPayloads : reviewResponse(r, data)
    \/ \E r \in inflight, data \in RoastPayloads : roastResponse(r, data)
    \/ \E r \in inflight, code \in ErrorCodes : roastFailure(r, code)
    \/ \E o \in ProbeOrigins, outcome \in {"2xx", "ECONNREFUSED"} :
          checkBackendConnection(o, outcome)
    \/ \E d \in Docs, line \in 0..2 : requestHover(d, line)
    \/ \E d \in Docs : requestCodeActions(d, <<>>)
    \/ \E d \in Docs, i \in 1..(3 * MaxComments) : applyFix(d, i)

FrameSpec == LedgerInit /\ [][FrameNext]_vars

\* responses that carry no finding: an empty list, or no list at all
BarePayloads == { p \in CommentPayloads : p.comments = <<>> }
BareComplexityPayloads == { p \in ComplexityPayloads : p.functions = <<>> }

\* the timer of request id fires before the backend has answered
TimesOut(id) ==
    \E r \in inflight :
        /\ r.id = id
        /\ \/ reviewFailure(r, "ECONNABORTED")
           \/ roastFailure(r, "ECONNABORTED")
           \/ securityScanFailure(r, "ECONNABORTED")
           \/ complexityFailure(r, "ECONNABORTED")

\* the four commands under every setting, with the sidebar; the backend answers
\* a request or stays silent, and the timer of a request that has one fires
TerminationNext ==
    \/ \E d \in Docs : showDocument(d)
    \/ resolveWebviewView
    \/ reviewInvoke
    \/ roastInvoke
    \/ securityScanInvoke
    \/ complexityInvoke
    \/ \E r \in inflight, data \in BarePayloads : reviewResponse(r, data)
    \/ \E r \in inflight, data \in RoastPayloads : roastResponse(r, data)
    \/ \E r \in inflight, data \in BarePayloads : securityScanResponse(r, data)
    \/ \E r \in inflight, data \in BareComplexityPayloads : complexityResponse(r, data)
    \/ \E r \in inflight, code \in ErrorCodes : reviewFailure(r, code)
    \/ \E r \in inflight, code \in ErrorCodes : roastFailure(r, code)
    \/ \E r \in inflight, code \in ErrorCodes : securityScanFailure(r, code)
    \/ \E r \in inflight, code \in ErrorCodes : complexityFailure(r, code)

TerminationSpec ==
    /\ Init
    /\ [][TerminationNext]_vars
    /\ \A id \in 1..MaxRequests : WF_vars(TimesOut(id))

\* responses with one comment at most
OneFixPayloads == { p \in FixPayloads : Len(p.comments) <= 1 }

\* quick fixes of review annotations applied again and again, by the current
\* entry point and by the legacy one
RepeatFixNext ==
    \/ \E d \in Docs : showDocument(d)
    \/ (nextId <= MaxFixRequests /\ reviewInvoke)
    \/ \E r \in inflight, data \in OneFixPayloads : reviewResponse(r, data)
    \/ \E d \in Docs : applyFix(d, 1)
    \/ \E d \in Docs : applyFixScan(d, 1)

RepeatFixSpec == LedgerInit /\ [][RepeatFixNext]_vars

\* the review of the legacy entry point, which sends the diff of the file
LegacyNext ==
    \/ \E d \in Docs : showDocument(d)
    \/ \E git \in GitOutcomes : reviewScanInvoke(git)
    \/ \E r \in inflight, data \in CommentPayloads : reviewScanResponse(r, data)
    \/ \E r \in inflight, code \in ErrorCodes : reviewScanFailure(r, code)

LegacySpec == LedgerInit /\ [][LegacyNext]_vars

\* ================================================================== claims
\* the diagnostics of category c in the ledger of document d, by the command
\* that created them
CatIn(ledger, d, c) == SelectSeq(ledger[d], LAMBDA x : x.cat = c)
OfCat(d, c)    == CatIn(diagnosticCollection, d, c)
OfCatNew(d, c) == CatIn(diagnosticCollection', d, c)

\* what the editor shows of a diagnostic
View(x) == [line |-> x.line, severity |-> x.severity, message |-> x.message,
            replacement |-> x.code]

ViewOfCat(d, c)    == MapSeq(OfCat(d, c), View)
ViewOfCatNew(d, c) == MapSeq(OfCatNew(d, c), View)

AnalysisCommands == {"review", "securityScan", "complexity"}

\* this step is the successful completion of command cmd
Completes(cmd) ==
    /\ lastEvent' # lastEvent
    /\ lastEvent'.op = "success"
    /\ lastEvent'.cmd = cmd

\* this step is the failure of a command
Fails ==
    /\ lastEvent' # lastEvent
    /\ lastEvent'.op = "failure"

\* C1: a successful review, security scan or complexity analysis of a
\* document leaves the annotations of the two other categories of that
\* document as they were: same line, severity, message and replacement.
C1_OtherCategoriesKept ==
    [][\A cmd \in AnalysisCommands :
          Completes(cmd) =>
             \A c2 \in Categories \ {CategoryOf(cmd)} :
                ViewOfCatNew(lastEvent'.doc, c2) = ViewOfCat(lastEvent'.doc, c2)]_vars

\* C2: when a review and a security scan of the same document both complete
\* with at least one comment, the ledger holds annotations of both categories
\* afterwards, whichever completed first.
C2_BothCategoriesPresent ==
    [][\A cmd \in {"review", "securityScan"} :
          LET other == IF cmd = "review" THEN "security" ELSE "plain"
          IN  (/\ Completes(cmd)
               /\ lastEvent'.count > 0
               /\ OfCat(lastEvent'.doc, other) # <<>>)
              => /\ OfCatNew(lastEvent'.doc, "plain") # <<>>
                 /\ OfCatNew(lastEvent'.doc, "security") # <<>>]_vars

\* C3: a failed backend call of any of the four commands, whatever the
\* failure, leaves the ledger of every document as it was.
C3_FailureKeepsLedger ==
    [][Fails => diagnosticCollection' = diagnosticCollection]_vars

\* C3 witness: a review was refused while the document had annotations
C3_Witness ==
    /\ lastEvent.op = "failure"
    /\ lastEvent.cmd = "review"
    /\ lastEvent.code = "ECONNREFUSED"
    /\ diagnosticCollection[lastEvent.doc] # <<>>

\* C4: a successful request of category C that yields no annotation leaves no
\* annotation of category C in the document's ledger and is reported with an
\* information message, not an error.
C4_EmptyResultClears ==
    [][\A cmd \in AnalysisCommands :
          (Completes(cmd) /\ lastEvent'.count = 0)
          => /\ OfCatNew(lastEvent'.doc, CategoryOf(cmd)) = <<>>
             /\ lastEvent'.note.kind = "info"]_vars

\* C4 witness: a security scan without findings evicted stale security
\* annotations
C4_Witness ==
    /\ lastEvent.op = "success"
    /\ lastEvent.cmd = "securityScan"
    /\ lastEvent.count = 0
    /\ lastEvent.evicted["security"] > 0

\* C5: every annotation of category C in a document's ledger was produced by
\* the request of category C that completed successfully last on that document.
C5_OnlyLatestRequest ==
    \A d \in Docs : \A i \in 1..Len(diagnosticCollection[d]) :
        diagnosticCollection[d][i].req = lastOk[d][diagnosticCollection[d][i].cat]

\* C5 witness: a second security scan replaced the annotations of the first
C5_Witness ==
    /\ lastEvent.op = "success"
    /\ lastEvent.cmd = "securityScan"
    /\ lastEvent.count > 0
    /\ lastEvent.evicted["security"] > 0
    /\ OfCat(lastEvent.doc, "security") # <<>>

\* an annotation of category c that document d has before the step and not after
Removed(d, c) ==
    \E i \in 1..Len(OfCat(d, c)) :
        \A j \in 1..Len(OfCatNew(d, c)) : OfCatNew(d, c)[j] # OfCat(d, c)[i]

\* C6: closing a document removes all its annotations, and while a document
\* stays open an annotation of a category is removed only by a successful
\* request of that category for that document.
C6_ClearedOnCloseOnly ==
    [][\A d \in Docs :
          /\ (d \in openDocs /\ d \notin openDocs') => diagnosticCollection'[d] = <<>>
          /\ \A c \in Categories :
                (d \in openDocs /\ d \in openDocs' /\ Removed(d, c))
                => \E cmd \in AnalysisCommands :
                      /\ Completes(cmd)
                      /\ CategoryOf(cmd) = c
                      /\ lastEvent'.doc = d]_vars

\* this step is the user picking a quick fix
AppliesFix ==
    /\ lastEvent' # lastEvent
    /\ lastEvent'.op = "applyFix"

\* the replacement stored in the diagnostic of the quick fix of event e
FixCode(e) == e.fix.diagnostics[1].code
FixLine(e) == e.fix.diagnostics[1].line

\* C7: the quick fix of an annotation whose replacement is absent or the empty
\* string (every complexity annotation is one) produces no edit and leaves the
\* document text unchanged.
C7_NoReplacementRejected ==
    [][(AppliesFix /\ ~Truthy(FixCode(lastEvent')))
       => /\ lastEvent'.fix.edit = <<>>
          /\ ~lastEvent'.applied
          /\ text' = text]_vars

\* C7 witness: the quick fix of a complexity annotation was picked
C7_Witness ==
    /\ lastEvent.op = "applyFix"
    /\ lastEvent.fix.diagnostics[1].cat = "complexity"
    /\ ~lastEvent.applied

\* C8: the quick fix of an annotation whose replacement is empty once its
\* trailing CR/LF are trimmed produces no edit and the anchored line keeps its
\* text.
C8_NewlineOnlyRejected ==
    [][(AppliesFix /\ StripTrailingNewlines(FixCode(lastEvent')) = <<>>)
       => /\ lastEvent'.fix.edit = <<>>
          /\ text' = text]_vars

\* the step rewrote line L (0-based) of document d to new and nothing else
LineRewritten(d, L, new) ==
    /\ L < Len(text[d])
    /\ Len(text'[d]) = Len(text[d])
    /\ text'[d][L + 1] = new
    /\ \A j \in 1..Len(text[d]) : j # L + 1 => text'[d][j] = text[d][j]
    /\ \A e \in Docs \ {d} : text'[e] = text[e]

\* C9 as claimed: the quick fix of an annotation with a non-empty replacement
\* leaves the anchored line equal to the replacement without its trailing
\* newlines and every other line as it was.
C9_RewritesAnchorLine ==
    [][(AppliesFix /\ Truthy(FixCode(lastEvent')))
       => LineRewritten(lastEvent'.doc, FixLine(lastEvent'),
                        StripTrailingNewlines(FixCode(lastEvent')))]_vars

HasLineBreak(s) == \E i \in 1..Len(s) : s[i] \in {LF, CR}

\* C9 amended: the same, for a replacement that has no line break left once
\* its trailing newlines are stripped and an anchor line the document has.
C9_RewritesAnchorLineInRange ==
    [][(/\ AppliesFix
        /\ Truthy(FixCode(lastEvent'))
        /\ ~HasLineBreak(StripTrailingNewlines(FixCode(lastEvent')))
        /\ FixLine(lastEvent') < Len(text[lastEvent'.doc]))
       => LineRewritten(lastEvent'.doc, FixLine(lastEvent'),
                        StripTrailingNewlines(FixCode(lastEvent')))]_vars

\* C9 witness: a replacement ending in CRLF was applied to line 1 of a.ts
C9_Witness ==
    /\ lastEvent.op = "applyFix"
    /\ lastEvent.applied
    /\ lastEvent.doc = "a.ts"
    /\ FixCode(lastEvent) = <<"safeEval(x)", CR, LF>>
    /\ text["a.ts"] = << <<"let x">>, <<"safeEval(x)">>, <<"return">> >>

\* s occurs in t as a contiguous piece
IsSubSeq(s, t) ==
    \E k \in 0..(Len(t) - Len(s)) : SubSeq(t, k + 1, k + Len(s)) = s

\* the diagnostics that request id put in the ledger of d
AddedBy(d, id) == SelectSeq(diagnosticCollection[d], LAMBDA x : x.req = id)

\* the items of a response that become annotations
Items(cmd, data) ==
    IF cmd = "complexity" THEN complexFunctions(data.functions) ELSE data.comments

\* C10: the i-th comment (flagged function) of a successful response with
\* 1-based line_number n becomes the i-th new annotation, anchored at line
\* n-1; the hover of line n-1 shows it and its quick fix, if any, rewrites
\* line n-1; for a comment, the message contains the suggestion and the
\* replacement is the fixed_code.  Stated on the state a successful
\* completion leaves: the ledger changes only in the step that records the
\* completion in lastEvent.
C10_AnchorIsLineMinusOne ==
    (lastEvent.op = "success" /\ lastEvent.cmd \in AnalysisCommands) =>
        LET cmd   == lastEvent.cmd
            d     == lastEvent.doc
            items == Items(cmd, lastEvent.data)
            new   == AddedBy(d, lastEvent.id)
        IN  /\ Len(new) = Len(items)
            /\ \A i \in 1..Len(items) :
                  LET n     == items[i].line_number
                      hover == provideHover(diagnosticCollection[d], n - 1)
                      fix   == createFix(new[i]).edit
                  IN  /\ new[i].line = n - 1
                      /\ \E k \in 1..Len(hover) : hover[k] = new[i]
                      /\ \A k \in 1..Len(fix) : fix[k].line = n - 1
                      /\ cmd # "complexity"
                         => /\ IsSubSeq(items[i].suggestion, new[i].message)
                            /\ new[i].code = items[i].fixed_code

\* C10 witness: a review comment on line 1 became an annotation on line 0
\* that carries a quick fix
C10_Witness ==
    /\ lastEvent.op = "success"
    /\ lastEvent.cmd = "review"
    /\ lastEvent.count > 0
    /\ lastEvent.data.comments[1].line_number = 1
    /\ Len(OfCat(lastEvent.doc, "plain")) > 0
    /\ OfCat(lastEvent.doc, "plain")[1].line = 0
    /\ createFix(OfCat(lastEvent.doc, "plain")[1]).edit # <<>>

\* the indices of the functions of a response whose is_complex flag is set
FlaggedAt(functions) == { i \in 1..Len(functions) : functions[i].is_complex }

\* the function name a complexity message reports: the tokens between
\* "Function '" and "' has cyclomatic complexity of "
NameIn(message) == SubSeq(message, 5, Len(message) - 5)

\* C11: after a successful complexity response, the annotations it added to
\* the ledger are as many as the functions whose is_complex flag is true,
\* the k-th of them reports the k-th flagged function (its name, its
\* line_number - 1), and no annotation it added reports a function whose flag
\* is false.
C11_OnlyFlaggedFunctions ==
    (lastEvent.op = "success" /\ lastEvent.cmd = "complexity") =>
        LET fs  == lastEvent.data.functions
            new == AddedBy(lastEvent.doc, lastEvent.id)
        IN  /\ Len(new) = Cardinality(FlaggedAt(fs))
            /\ \A k \in 1..Len(new) :
                  \E i \in FlaggedAt(fs) :
                     /\ Cardinality({ j \in FlaggedAt(fs) : j <= i }) = k
                     /\ NameIn(new[k].message) = fs[i].name
                     /\ new[k].line = fs[i].line_number - 1
            /\ \A i \in (1..Len(fs)) \ FlaggedAt(fs) :
                  \A k \in 1..Len(new) : NameIn(new[k].message) # fs[i].name

\* C11 witness: the response [foo flagged, bar not flagged] left one
\* annotation, for foo
C11_Witness ==
    /\ lastEvent.op = "success"
    /\ lastEvent.cmd = "complexity"
    /\ Len(lastEvent.data.functions) = 2
    /\ lastEvent.data.functions[1].name = <<"foo">>
    /\ lastEvent.data.functions[1].is_complex
    /\ lastEvent.data.functions[2].name = <<"bar">>
    /\ ~lastEvent.data.functions[2].is_complex
    /\ Len(diagnosticCollection[lastEvent.doc]) = 1
    /\ NameIn(diagnosticCollection[lastEvent.doc][1].message) = <<"foo">>

\* what a request id of category c alone leaves in an empty ledger when it is
\* answered with data
Alone(c, data, id) ==
    CASE c = "plain"      -> reviewSet(<<>>, data.comments, id)
      [] c = "security"   -> securityScanSet(<<>>, data.comments, id)
      [] c = "complexity" -> complexitySet(<<>>, data.functions, data.threshold, id)

PayloadsFor(c) == IF c = "complexity" THEN FlaggedPayloads ELSE FindingPayloads

\* C12: when every response carries findings, in every state and so after
\* every interleaving of the requests and responses, each category of each
\* document holds exactly what its last successful request produced: the
\* annotations that request would have left had it run alone.
C12_CategoriesIndependent ==
    \A d \in Docs : \A c \in Categories :
        lastOk[d][c] # 0 =>
            \E data \in PayloadsFor(c) :
                OfCat(d, c) = Alone(c, data, lastOk[d][c])

\* the annotations of request id in the ledger of d after this step
AddedByNew(d, id) == SelectSeq(diagnosticCollection'[d], LAMBDA x : x.req = id)

\* C13: the step that folds a response into the ledger puts all of the
\* response's annotations there at once, one per comment; the step in which
\* ingestion throws (a missing comments field, a malformed comment, also
\* after well-formed ones) leaves the ledger of every document as it was,
\* with no annotation of that response; and no other step changes the
\* ledger, so no state has only a part of a response's annotations folded in.
C13_FoldIsAtomic ==
    [][/\ (lastEvent' # lastEvent /\ lastEvent'.op = "success")
          => Len(AddedByNew(lastEvent'.doc, lastEvent'.id))
               = Len(lastEvent'.data.comments)
       /\ Fails
          => /\ diagnosticCollection' = diagnosticCollection
             /\ AddedByNew(lastEvent'.doc, lastEvent'.id) = <<>>
       /\ diagnosticCollection' # diagnosticCollection
          => (lastEvent' # lastEvent /\ lastEvent'.op = "success")]_vars

\* C13 witness: ingestion of a review response threw while the document had
\* annotations of an earlier response
C13_Witness ==
    /\ lastEvent.op = "failure"
    /\ lastEvent.cmd = "review"
    /\ lastEvent.code = NoValue
    /\ lastEvent.id = 2
    /\ Len(diagnosticCollection[lastEvent.doc]) = 2

\* the categories the tag tests of the handlers put a message in: the filters
\* of securityScan and complexity test message.includes(tag); a message with
\* neither tag is a plain one
TagCategories(message) ==
    (IF Includes(message, TagSecurity) THEN {"security"} ELSE {})
      \cup (IF Includes(message, TagComplexity) THEN {"complexity"} ELSE {})
      \cup (IF ~Includes(message, TagSecurity) /\ ~Includes(message, TagComplexity)
            THEN {"plain"} ELSE {})

\* C14: every annotation in the ledger is put by its message tags in exactly
\* one category, the one of the command that created it.
C14_OneCategoryByTag ==
    \A d \in Docs : \A i \in 1..Len(diagnosticCollection[d]) :
        TagCategories(diagnosticCollection[d][i].message)
          = { diagnosticCollection[d][i].cat }

\* this step sends a request
Sends == lastEvent' # lastEvent /\ lastEvent'.op = "invoke"

\* the request this step sends
Sent == CHOOSE r \in inflight' : r.id = lastEvent'.id

\* twice 1.5 t for the security scan, twice t for the other commands
TwiceExpected(cmd, t) == IF cmd = "securityScan" THEN 3 * t ELSE 2 * t

\* C15 as stated: whatever number t the setting holds, the security scan is
\* sent with timeout 1.5 t and review, roast and complexity with timeout t.
C15_TimeoutFollowsSetting ==
    [][(Sends /\ requestTimeout # NotSet)
        => 2 * Sent.timeout = TwiceExpected(Sent.cmd, requestTimeout)]_vars

\* C15 amended: the same for every t other than 0.
C15_TimeoutFollowsNonZeroSetting ==
    [][(Sends /\ requestTimeout # NotSet /\ requestTimeout # 0)
        => 2 * Sent.timeout = TwiceExpected(Sent.cmd, requestTimeout)]_vars

\* C15 witness: with the setting at 2000 a security scan is in flight with
\* timeout 3000 and a review with timeout 2000
C15_Witness ==
    /\ requestTimeout = 2000
    /\ \E r \in inflight : r.cmd = "securityScan" /\ r.timeout = 3000
    /\ \E r \in inflight : r.cmd = "review" /\ r.timeout = 2000

C17_NoAutomaticRetry ==
    [][/\ Cardinality(inflight' \ inflight) <= 1
       /\ inflight' \ inflight # {}
          => /\ Sends
             /\ (inflight' \ inflight) = {Sent}
             /\ inflight \subseteq inflight'
       /\ Fails
          => /\ inflight' \subseteq inflight
             /\ \A r \in inflight' : r.id # lastEvent'.id
             /\ nextId' = nextId]_vars

\* C17 witness: a complexity request was refused and nothing is in flight
C17_Witness ==
    /\ lastEvent.op = "failure"
    /\ lastEvent.cmd = "complexity"
    /\ lastEvent.code = "ECONNREFUSED"
    /\ inflight = {}
    /\ nextId = 2

\* what the handler of cmd makes of the ledger existing of a document and of
\* the response data, and of nothing else
Fold(cmd, existing, data, id) ==
    CASE cmd = "review" ->
           MapSeq(data.comments, LAMBDA c : reviewDiagnostic(c, id))
      [] cmd = "securityScan" ->
           kept(existing, TagSecurity)
             \o MapSeq(data.comments, LAMBDA c : securityDiagnostic(c, id))
      [] cmd = "complexity" ->
           kept(existing, TagComplexity)
             \o MapSeq(SelectSeq(data.functions, LAMBDA f : f.is_complex),
                       LAMBDA f : complexityDiagnostic(f, data.threshold, id))
      [] OTHER -> existing

C19_ProbeReturnsWhatItShows ==
    lastEvent.op = "probeDone" =>
        /\ lastEvent.online \in BOOLEAN
        /\ lastEvent.online = (lastEvent.outcome = "2xx")
        /\ lastEvent.outcome \in {"non-2xx", "ECONNREFUSED", "ETIMEDOUT"}
           => ~lastEvent.online
        /\ statusBarItem =
             IF lastEvent.online
             THEN [text |-> "$(shield) DevSentinel", tooltip |-> "Online"]
             ELSE [text |-> "$(error) DevSentinel", tooltip |-> "Offline"]

\* C19 witness: the probe started by a refused review got a non-2xx status
\* and returned offline
C19_Witness ==
    /\ lastEvent.op = "probeDone"
    /\ lastEvent.origin = "refused"
    /\ lastEvent.outcome = "non-2xx"
    /\ ~lastEvent.online
    /\ statusBarItem.tooltip = "Offline"

\* this step of a command handler posts one more request
PostsRequest == Cardinality(inflight') = Cardinality(inflight) + 1

\* C20: in every state with an active editor, whatever the status bar shows
\* (online, offline or nothing yet), each of review, roast, securityScan and
\* complexity can be invoked and its invocation sends the request (up to the
\* number of requests of a behaviour).
C20_ConnectivityNeverGates ==
    (activeEditor # NoEditor /\ nextId <= MaxRequests) =>
        /\ ENABLED (reviewInvoke /\ PostsRequest)
        /\ ENABLED (roastInvoke /\ PostsRequest)
        /\ ENABLED (securityScanInvoke /\ PostsRequest)
        /\ ENABLED (complexityInvoke /\ PostsRequest)
        /\ ~ ENABLED (reviewInvoke /\ ~PostsRequest)
        /\ ~ ENABLED (roastInvoke /\ ~PostsRequest)
        /\ ~ ENABLED (securityScanInvoke /\ ~PostsRequest)
        /\ ~ ENABLED (complexityInvoke /\ ~PostsRequest)

\* C20 witness: a security scan was sent while the status bar showed the
\* backend offline
C20_Witness ==
    /\ statusBarItem.tooltip = "Offline"
    /\ lastEvent.op = "invoke"
    /\ lastEvent.cmd = "securityScan"
    /\ \E r \in inflight : r.id = lastEvent.id /\ r.cmd = "securityScan"

\* C21: the step in which a request of any of the four commands fails with
\* connection refused starts a connectivity probe.
C21_RefusedStartsProbe ==
    [][(Fails /\ lastEvent'.code = "ECONNREFUSED")
        => probes'["refused"] = probes["refused"] + 1]_vars

\* the class of a failed call, by error.code
FailureClass(code) ==
    CASE code = "ECONNREFUSED" -> "Unreachable"
      [] code = "ECONNABORTED" -> "Timeout"
      [] OTHER                 -> "Other"

\* the notifications that give the guidance of each class: asking whether the
\* backend is running, suggesting a higher requestTimeout, showing the raw
\* error text
GuidanceOf(class) ==
    CASE class = "Unreachable" -> {"Could not connect to backend. Is it running?"}
      [] class = "Timeout"     -> {"Request timed out. Try increasing requestTimeout"}
      [] OTHER                 -> {"DevSentinel Error: msg", "Roast Failed: msg",
                                   "DevSentinel Security Scan Error: msg",
                                   "DevSentinel Complexity Error: msg"}

\* C22: the error notification of a failed call of any of the four commands
\* gives the guidance of the call's class: Unreachable, Timeout or Other.
C22_GuidanceByClass ==
    lastEvent.op = "failure" =>
        /\ lastEvent.note.kind = "error"
        /\ lastEvent.note.text \in GuidanceOf(FailureClass(lastEvent.code))

\* the positions of the diagnostics of a context that carry the marker
OwnAt(context) == { i \in 1..Len(context) : context[i].source = "DevSentinel" }

\* C23: the code actions returned for a request are one per diagnostic of the
\* context whose source is 'DevSentinel', each for that diagnostic; no action
\* is returned for a diagnostic of another source, though it has a code.
C23_FixOnlyForOwnDiagnostics ==
    lastEvent.op = "codeActions" =>
        /\ Len(lastEvent.actions) = Cardinality(OwnAt(lastEvent.context))
        /\ \A k \in 1..Len(lastEvent.actions) :
              /\ Len(lastEvent.actions[k].diagnostics) = 1
              /\ lastEvent.actions[k].diagnostics[1].source = "DevSentinel"
              /\ \E i \in OwnAt(lastEvent.context) :
                    lastEvent.actions[k].diagnostics[1] = lastEvent.context[i]
        /\ \A i \in (1..Len(lastEvent.context)) \ OwnAt(lastEvent.context) :
              \A k \in 1..Len(lastEvent.actions) :
                 lastEvent.actions[k].diagnostics[1] # lastEvent.context[i]

\* C23 witness: a request whose context holds a linter's diagnostic with a
\* code and a review's diagnostic got one action, the review's
C23_Witness ==
    /\ lastEvent.op = "codeActions"
    /\ Len(lastEvent.context) = 2
    /\ lastEvent.context[1].source = "eslint"
    /\ Truthy(lastEvent.context[1].code)
    /\ lastEvent.context[2].source = "DevSentinel"
    /\ Len(lastEvent.actions) = 1
    /\ lastEvent.actions[1].diagnostics[1] = lastEvent.context[2]

\* the severity the protocol value sev stands for
SeverityNamed(sev) ==
    CASE sev = "error"   -> "Error"
      [] sev = "warning" -> "Warning"
      [] sev = "info"    -> "Information"
      [] sev = "hint"    -> "Hint"

\* C24: every annotation in the ledger has one of the four severities; after
\* a successful review or security scan the annotation of a comment that
\* carries error, warning, info or hint has that severity, the one of a
\* comment without a severity has warning (review) or error (security scan);
\* after a successful complexity analysis every new annotation has warning.
C24_SeverityMapping ==
    /\ \A d \in Docs : \A i \in 1..Len(diagnosticCollection[d]) :
          diagnosticCollection[d][i].severity
            \in {"Error", "Warning", "Information", "Hint"}
    /\ (lastEvent.op = "success" /\ lastEvent.cmd \in {"review", "securityScan"}) =>
          LET new == AddedBy(lastEvent.doc, lastEvent.id)
              cs  == lastEvent.data.comments
          IN  \A i \in 1..Len(cs) :
                 /\ cs[i].severity \in {"error", "warning", "info", "hint"}
                    => new[i].severity = SeverityNamed(cs[i].severity)
                 /\ cs[i].severity = NoValue
                    => new[i].severity =
                         IF lastEvent.cmd = "review" THEN "Warning" ELSE "Error"
    /\ (lastEvent.op = "success" /\ lastEvent.cmd = "complexity") =>
          \A x \in { AddedBy(lastEvent.doc, lastEvent.id)[i] :
                       i \in 1..Len(AddedBy(lastEvent.doc, lastEvent.id)) } :
             x.severity = "Warning"

\* C24 witness: a security scan returned a comment without a severity and its
\* annotation has severity error
C24_Witness ==
    /\ lastEvent.op = "success"
    /\ lastEvent.cmd = "securityScan"
    /\ Len(lastEvent.data.comments) = 1
    /\ lastEvent.data.comments[1].severity = NoValue
    /\ Len(diagnosticCollection[lastEvent.doc]) = 1
    /\ diagnosticCollection[lastEvent.doc][1].severity = "Error"

\* C25: in the state a completed probe leaves, whichever caller started it,
\* the status bar shows online exactly if the probe returned online, and so
\* does the status dot of the sidebar when the sidebar is open.
C25_SurfacesAgreeWithProbe ==
    lastEvent.op = "probeDone" =>
        /\ (statusBarItem.tooltip = "Online") = lastEvent.online
        /\ viewResolved => ((sidebarDot = "status-dot online") = lastEvent.online)

\* C26: a step changes the ledger of a document only if it completes a request
\* that was invoked on that document, whichever document is active then; the
\* ledgers of all other documents stay as they are and get none of the
\* response's annotations.
C26_OnlyTheInvokedDocument ==
    [][\A d \in Docs :
          diagnosticCollection'[d] # diagnosticCollection[d]
          => /\ \E r \in inflight \ inflight' : r.doc = d /\ r.id = lastEvent'.id
             /\ lastEvent'.op = "success"
             /\ \A e \in Docs \ {d} :
                   /\ diagnosticCollection'[e] = diagnosticCollection[e]
                   /\ AddedByNew(e, lastEvent'.id) = <<>>]_vars

\* C26 witness: the response of a request on one document arrived while the
\* other document was active, and only the first document has annotations
C26_Witness ==
    /\ lastEvent.op = "success"
    /\ activeEditor \in Docs \ {lastEvent.doc}
    /\ AddedBy(lastEvent.doc, lastEvent.id) # <<>>
    /\ diagnosticCollection[activeEditor] = <<>>

\* C27: a response that is folded into the ledger of a document belongs to a
\* request issued after the one whose annotations of that category the
\* ledger holds: a response never replaces the annotations of a request
\* issued later than its own.
C27_OlderNeverOverwritesNewer ==
    [][\A cmd \in AnalysisCommands :
          Completes(cmd)
          => lastOk[lastEvent'.doc][CategoryOf(cmd)] < lastEvent'.id]_vars

\* C28: a step changes the ledger of some document only if it is the
\* successful completion of a review, a security scan or a complexity
\* analysis; the steps of the roast, of the connectivity probe, of a hover or
\* code action request and of applying a quick fix leave every ledger as it
\* is, and the annotation of an applied fix is still in the ledger.
C28_LedgerChangedBySuccessOnly ==
    [][/\ diagnosticCollection' # diagnosticCollection
          => /\ lastEvent' # lastEvent
             /\ lastEvent'.op = "success"
             /\ lastEvent'.cmd \in {"review", "securityScan", "complexity"}
       /\ (lastEvent' # lastEvent
             /\ lastEvent'.op \in {"probe", "probeDone", "hover", "codeActions",
                                   "applyFix", "invoke", "noEditor", "failure"})
          => diagnosticCollection' = diagnosticCollection
       /\ (lastEvent' # lastEvent /\ lastEvent'.op = "success"
             /\ lastEvent'.cmd = "roast")
          => diagnosticCollection' = diagnosticCollection
       /\ (lastEvent' # lastEvent /\ lastEvent'.op = "applyFix")
          => \E i \in 1..Len(diagnosticCollection'[lastEvent'.doc]) :
                diagnosticCollection'[lastEvent'.doc][i]
                  = lastEvent'.fix.diagnostics[1]]_vars

\* C28 witness: a quick fix was applied to a document and its annotation is
\* still in the ledger
C28_Witness ==
    /\ lastEvent.op = "applyFix"
    /\ lastEvent.applied
    /\ text[lastEvent.doc] # InitialText[lastEvent.doc]
    /\ \E i \in 1..Len(diagnosticCollection[lastEvent.doc]) :
          diagnosticCollection[lastEvent.doc][i] = lastEvent.fix.diagnostics[1]

\* the messages that end an invocation in the sidebar
ResultTypes == {"result", "roast", "complexity"}
Closing(id) ==
    Len(SelectSeq(sidebarMsgs[id], LAMBDA t : t \in ResultTypes \cup {"error"}))
Loading(id) ==
    /\ id \in DOMAIN sidebarMsgs
    /\ sidebarMsgs[id] # <<>>
    /\ sidebarMsgs[id][1] = "loading"
Finished(id) == id < nextId /\ \A r \in inflight : r.id # id

\* C29: under every setting of requestTimeout a request is in flight with a
\* timeout above 0, an invocation never has more than one result or error
\* message in the sidebar, and every invocation that posted 'loading'
\* eventually finishes with exactly one result or error message.
C29_EveryInvocationFinishes ==
    /\ [](\A r \in inflight : r.timeout > 0)
    /\ [](\A id \in DOMAIN sidebarMsgs : Closing(id) <= 1)
    /\ \A id \in 1..MaxRequests :
          Loading(id) ~> (Finished(id) /\ Closing(id) = 1)

\* the step applies, by the same entry point, the fix that the step before
\* applied to the same document
AppliesFixAgain ==
    /\ lastEvent.op \in {"applyFix", "applyFixScan"}
    /\ lastEvent.applied
    /\ lastEvent' # lastEvent
    /\ lastEvent'.op = lastEvent.op
    /\ lastEvent'.doc = lastEvent.doc
    /\ lastEvent'.fix = lastEvent.fix

\* C30: when the fix applied by the step before is applied again, and its
\* replacement has no line break before its trailing newlines, the text of
\* every document stays as the first application left it.
C30_SecondApplicationChangesNothing ==
    [][(AppliesFixAgain /\ ~HasLineBreak(StripTrailingNewlines(FixCode(lastEvent))))
       => text' = text]_vars

\* C31: in the legacy entry point, applying a fix whose replacement is a
\* single line to an anchor line the document has leaves the document with
\* as many lines as before, the anchor line equal to the replacement and
\* every other line as it was.
C31_LegacyFixRewritesOneLine ==
    [][(/\ lastEvent' # lastEvent
        /\ lastEvent'.op = "applyFixScan"
        /\ lastEvent'.applied
        /\ ~HasLineBreak(FixCode(lastEvent'))
        /\ FixLine(lastEvent') < Len(text[lastEvent'.doc]))
       => LineRewritten(lastEvent'.doc, FixLine(lastEvent'), FixCode(lastEvent'))]_vars

\* C32: when the legacy review is invoked with an active editor and git diff
\* fails or prints nothing, the step sends no request and leaves the ledger of
\* every document as it is.
C32_NoDiffNoRequest ==
    [][(/\ lastEvent' # lastEvent
        /\ lastEvent'.cmd = "reviewScan"
        /\ lastEvent'.op \in {"invoke", "noDiff"}
        /\ (lastEvent'.git.error \/ lastEvent'.git.stdout = <<>>))
       => /\ lastEvent'.op = "noDiff"
          /\ inflight' = inflight
          /\ nextId' = nextId
          /\ diagnosticCollection' = diagnosticCollection]_vars

\* C32 witness: git diff failed after it had printed something, and the
\* annotations of an earlier review are still in the ledger of the document
C32_Witness ==
    /\ lastEvent.op = "noDiff"
    /\ lastEvent.git.error
    /\ lastEvent.git.stdout # <<>>
    /\ inflight = {}
    /\ diagnosticCollection[lastEvent.doc] # <<>>

\* C33: after a successful security scan, the annotation of every comment
\* whose severity is not warning, info or hint (error, none, the empty
\* string, a string outside the protocol) has severity error.
C33_SecurityNeverBelowError ==
    (lastEvent.op = "success" /\ lastEvent.cmd = "securityScan") =>
        LET new == AddedBy(lastEvent.doc, lastEvent.id)
            cs  == lastEvent.data.comments
        IN  \A i \in 1..Len(cs) :
               cs[i].severity \notin {"warning", "info", "hint"}
                 => new[i].severity = "Error"

====
